---- MODULE Spec2Model ----
(***************************************************************************)
(* Model of the Player class (src/src/player.h, src/src/player.cpp): the   *)
(* registry `sounds` of ActiveSound objects, the handle lists they carry,  *)
(* and the calls Player makes into the SoLoud engine.                      *)
(*                                                                         *)
(* `sounds` is a std::vector<std::unique_ptr<ActiveSound>>: an entry is    *)
(* either an ActiveSound record or the empty pointer (Null).  Reading      *)
(* through an empty pointer is undefined behaviour; it is modelled as a    *)
(* choice between the process aborting (`crashed`) and the read yielding   *)
(* an arbitrary value, so a comparison on it goes either way.              *)
(***************************************************************************)
EXTENDS Integers, Sequences, FiniteSets, TLC

(* ------------------------------ bounds -------------------------------- *)

\* longest `sounds` vector explored
MaxSounds == 3
\* number of voice handles the engine issues in a run
MaxHandle == 2

(* ----------------------------- value sets ----------------------------- *)

Paths == {"a.wav", "b.wav"}
\* values of (unsigned int)std::hash<std::string>: 0, which is also the
\* soundHash of a value-initialised ActiveSound, and one other value
Hashes == {0, 1}

\* SoLoud::result values Wav::load can return (cast to PlayerErrors unchanged)
LoadResults == {"noError", "fileNotFound", "fileLoadFailed"}
\* SoLoud::result values Speech::setText can return
SpeechResults == {"noError", "invalidParameter"}
\* SoLoud::result values Soloud::seek can return
SeekResults == {"noError", "invalidParameter"}

\* values Soloud::getStreamPosition can return for a live voice
Positions == {0, 1}
\* a vector (three floats) given to a 3D listener setter
Vectors == {1}

\* value of a reference output parameter the call did not assign
NoOut == -1

VARIABLES
    sounds,      \* Player::sounds
    mInited,     \* Player::mInited
    voices,      \* the engine's live voices: handle -> [src, paused]
    nextHandle,  \* the next handle the engine issues
    hashOf,      \* std::hash<std::string> on the paths, truncated
    crashed,     \* the process aborted on an invalid memory access
    op           \* the last call: name, argument, return, output, engine calls

vars == <<sounds, mInited, voices, nextHandle, hashOf, crashed, op>>

\* handle arguments a caller passes: the handles the engine has issued so
\* far, and 0, which it never issues
HandleArgs == 0 .. (nextHandle - 1)

(* ------------------------------ ActiveSound --------------------------- *)

\* the empty std::unique_ptr<ActiveSound>
Null == [null |-> TRUE]

\* std::make_unique<ActiveSound>(): value-initialised, so soundHash is 0,
\* the Wav holds no samples (length 0), the name and handle list are empty
NewActiveSound ==
    [null |-> FALSE, soundHash |-> 0, completeFileName |-> "",
     handle |-> <<>>, len |-> 0]

IsNull(e) == e.null

\* Player::getSoundsCount
getSoundsCount == Len(sounds)

EmptyVoices == [h \in {} |-> [src |-> "wav", paused |-> FALSE]]

Call(name, arg, ret, out, eng) ==
    [name |-> name, arg |-> arg, ret |-> ret, out |-> out, eng |-> eng]

(* ------------------------------ lookups ------------------------------- *)

\* std::find_if(sounds.begin(), sounds.end(), f->soundHash == hash), from
\* position i.  The result is an iterator: a position 1..Len(s), or
\* Len(s)+1 for sounds.end(); 0 stands for the process aborting.  On an
\* empty pointer f->soundHash is an invalid read: the process aborts, or the
\* value read equals hash (the iterator stops there) or differs (it goes on).
RECURSIVE FindIfFrom(_, _, _)
FindIfFrom(s, hash, i) ==
    IF i > Len(s) THEN {Len(s) + 1}
    ELSE IF IsNull(s[i]) THEN {0, i} \cup FindIfFrom(s, hash, i + 1)
    ELSE IF s[i].soundHash = hash THEN {i}
    ELSE FindIfFrom(s, hash, i + 1)

FindIf(s, hash) == FindIfFrom(s, hash, 1)

\* first position of handle in an ActiveSound's handle list, 0 if absent
RECURSIVE IndexOfFrom(_, _, _)
IndexOfFrom(hs, handle, index) ==
    IF index > Len(hs) THEN 0
    ELSE IF hs[index] = handle THEN index
    ELSE IndexOfFrom(hs, handle, index + 1)

\* Player::findByHandle from sound i.  st = "found": sounds[i] lists handle
\* at handleId (0-based); st = "none": nullptr returned; st = "crash": the
\* process aborted.  On an empty pointer handle.size() and handle[index] are
\* invalid reads: abort, or a size of 0 (scan goes on), or a value equal to
\* handle, and then sounds[i].get(), the null pointer, is what is returned.
RECURSIVE findByHandleFrom(_, _, _)
findByHandleFrom(s, handle, i) ==
    IF i > Len(s) THEN {[st |-> "none", i |-> 0, handleId |-> -1]}
    ELSE IF IsNull(s[i])
    THEN {[st |-> "crash", i |-> i, handleId |-> -1],
          [st |-> "none", i |-> i, handleId |-> 0]}
         \cup findByHandleFrom(s, handle, i + 1)
    ELSE IF IndexOfFrom(s[i].handle, handle, 1) > 0
    THEN {[st |-> "found", i |-> i,
           handleId |-> IndexOfFrom(s[i].handle, handle, 1) - 1]}
    ELSE findByHandleFrom(s, handle, i + 1)

findByHandle(handle) == findByHandleFrom(sounds, handle, 1)

(* --------------------------- erase/remove_if -------------------------- *)

\* vector::erase(pos): the elements after pos move down by one
EraseAt(s, pos) == SubSeq(s, 1, pos - 1) \o SubSeq(s, pos + 1, Len(s))

\* the loop of std::remove_if over a handle list: elements that do not
\* match are assigned to *result; the returned iterator is result
RECURSIVE RemoveHandleLoop(_, _, _, _)
RemoveHandleLoop(hs, handle, result, first) ==
    IF first > Len(hs) THEN [s |-> hs, pos |-> result]
    ELSE IF hs[first] = handle
    THEN RemoveHandleLoop(hs, handle, result, first + 1)
    ELSE RemoveHandleLoop([hs EXCEPT ![result] = hs[first]], handle,
                          result + 1, first + 1)

\* std::remove_if(handle.begin(), handle.end(), f == handle)
RemoveIfHandle(hs, handle) ==
    LET first == IndexOfFrom(hs, handle, 1)
    IN  IF first = 0 THEN [s |-> hs, pos |-> Len(hs) + 1]
        ELSE RemoveHandleLoop(hs, handle, first, first + 1)

\* the erase-remove idiom with the erase forgotten: remove_if alone leaves
\* the vector at its old length, the tail holding stale values
RemoveWithoutErase(hs, handle) == RemoveIfHandle(hs, handle).s

\* sound->handle.erase(std::remove_if(...)): the one-iterator erase removes
\* the single element at the iterator remove_if returns
EraseHandle(hs, handle) ==
    LET r == RemoveIfHandle(hs, handle) IN EraseAt(r.s, r.pos)

\* the loop of std::remove_if over sounds: an entry that does not match is
\* move-assigned to *result (the moved-from unique_ptr is left empty).  On
\* an empty pointer the predicate is an invalid read, as in FindIfFrom.
RECURSIVE RemoveSoundLoop(_, _, _, _)
RemoveSoundLoop(s, hash, result, first) ==
    LET skip == RemoveSoundLoop(s, hash, result, first + 1)
        move == RemoveSoundLoop(
                    [s EXCEPT ![result] = s[first], ![first] = Null],
                    hash, result + 1, first + 1)
    IN  IF first > Len(s) THEN {[crash |-> FALSE, s |-> s, pos |-> result]}
        ELSE IF IsNull(s[first])
        THEN {[crash |-> TRUE, s |-> s, pos |-> result]} \cup skip \cup move
        ELSE IF s[first].soundHash = hash THEN skip
        ELSE move

\* std::remove_if(sounds.begin(), sounds.end(), f.get()->soundHash == hash)
RemoveIfSounds(s, hash) ==
    UNION {IF first = 0 THEN {[crash |-> TRUE, s |-> s, pos |-> 0]}
           ELSE IF first > Len(s)
           THEN {[crash |-> FALSE, s |-> s, pos |-> first]}
           ELSE RemoveSoundLoop(s, hash, first, first + 1)
           : first \in FindIf(s, hash)}

(* ------------------------------- engine ------------------------------- *)

\* handles listed by the ActiveSounds of a sounds vector
ListedHandles(s) ==
    UNION {{s[i].handle[k] : k \in 1 .. Len(s[i].handle)}
           : i \in {j \in 1 .. Len(s) : ~IsNull(s[j])}}

\* the voices left when the voices in hs are stopped
Without(v, hs) == [h \in (DOMAIN v) \ hs |-> v[h]]

\* SoLoud::AudioSource::stop on an ActiveSound's Wav: ends the voices that
\* were started from that Wav, which are those soloud.play(sound->sound)
\* returned and play recorded in its handle list
WavVoices(v, a) ==
    {h \in DOMAIN v : v[h].src = "wav"
                      /\ \E k \in 1 .. Len(a.handle) : a.handle[k] = h}

\* the engine starts a voice and issues nextHandle for it
StartVoice(v, src, paused) ==
    [h \in (DOMAIN v) \cup {nextHandle} |->
        IF h = nextHandle THEN [src |-> src, paused |-> paused] ELSE v[h]]

(* ------------------------------ handlers ------------------------------ *)

\* the process aborts inside the call: nothing after the access happens,
\* and the Player, its sounds and the engine are gone with the process
Abort(name, arg) ==
    /\ crashed' = TRUE
    /\ op' = Call(name, arg, "crash", NoOut, <<>>)
    /\ sounds' = <<>>
    /\ mInited' = FALSE
    /\ voices' = EmptyVoices
    /\ UNCHANGED <<nextHandle, hashOf>>

\* init as it would be without the dispose() of an initialised player
initWithoutDispose ==
    /\ ~crashed
    /\ \E result \in {"noError", "unknownError"} :
        /\ mInited' = (result = "noError")
        /\ op' = Call("init", 0,
                      IF result = "noError" THEN "noError"
                                            ELSE "backendNotInited",
                      NoOut, <<<<"init", 0>>>>)
    /\ UNCHANGED <<sounds, voices, nextHandle, hashOf, crashed>>

\* Player::init
init ==
    /\ ~crashed
    /\ \E result \in {"noError", "unknownError"} :
        /\ sounds' = IF mInited THEN <<>> ELSE sounds
        /\ voices' = IF mInited THEN EmptyVoices ELSE voices
        /\ mInited' = (result = "noError")
        /\ op' = Call("init", 0,
                      IF result = "noError" THEN "noError"
                                            ELSE "backendNotInited",
                      NoOut,
                      IF mInited THEN <<<<"deinit", 0>>, <<"init", 0>>>>
                                 ELSE <<<<"init", 0>>>>)
    /\ UNCHANGED <<nextHandle, hashOf, crashed>>

\* dispose as it would be without sounds.clear()
disposeWithoutClear ==
    /\ ~crashed
    /\ voices' = EmptyVoices
    /\ mInited' = FALSE
    /\ op' = Call("dispose", 0, "void", NoOut, <<<<"deinit", 0>>>>)
    /\ UNCHANGED <<sounds, nextHandle, hashOf, crashed>>

\* Player::dispose
dispose ==
    /\ ~crashed
    /\ voices' = EmptyVoices
    /\ mInited' = FALSE
    /\ sounds' = <<>>
    /\ op' = Call("dispose", 0, "void", NoOut, <<<<"deinit", 0>>>>)
    /\ UNCHANGED <<nextHandle, hashOf, crashed>>

\* Player::loadFile(completeFileName, hash)
loadFile(completeFileName) ==
    /\ ~crashed
    /\ IF ~mInited
       THEN /\ op' = Call("loadFile", completeFileName, "backendNotInited",
                          NoOut, <<>>)
            /\ UNCHANGED <<sounds, mInited, voices, nextHandle, hashOf,
                           crashed>>
       ELSE LET newHash == hashOf[completeFileName]
                pushed == Append(sounds,
                              [NewActiveSound EXCEPT
                                  !.completeFileName = completeFileName,
                                  !.soundHash = newHash])
            IN  \E s \in FindIf(sounds, newHash) :
                  \/ /\ s = 0
                     /\ Abort("loadFile", completeFileName)
                  \/ /\ s \in 1 .. Len(sounds)
                     /\ op' = Call("loadFile", completeFileName,
                                   "fileAlreadyLoaded", 0, <<>>)
                     /\ UNCHANGED <<sounds, mInited, voices, nextHandle,
                                    hashOf, crashed>>
                  \/ /\ s = Len(sounds) + 1
                     /\ \E result \in LoadResults :
                          /\ Len(sounds) + (IF result = "noError" THEN 1 ELSE 2)
                                <= MaxSounds
                          /\ sounds' =
                               IF result = "noError"
                               THEN [pushed EXCEPT ![Len(pushed)].len = 1]
                               ELSE Append(pushed, Null)
                          /\ op' = Call("loadFile", completeFileName, result,
                                        newHash, <<>>)
                     /\ UNCHANGED <<mInited, voices, nextHandle, hashOf,
                                    crashed>>

\* the voice a resolved ActiveSound lists at handleId
HandleAt(r) == sounds[r.i].handle[r.handleId + 1]

\* Player::pauseSwitch(handle)
pauseSwitch(handle) ==
    /\ ~crashed
    /\ \E r \in findByHandle(handle) :
         \/ /\ r.st = "crash"
            /\ Abort("pauseSwitch", handle)
         \/ /\ r.st = "none"
            /\ op' = Call("pauseSwitch", handle, "void", NoOut, <<>>)
            /\ UNCHANGED <<sounds, mInited, voices, nextHandle, hashOf,
                           crashed>>
         \/ /\ r.st = "found"
            /\ voices' = [h \in DOMAIN voices |->
                            IF h = HandleAt(r)
                            THEN [voices[h] EXCEPT !.paused = ~voices[h].paused]
                            ELSE voices[h]]
            /\ op' = Call("pauseSwitch", handle, "void", NoOut,
                          <<<<"getPause", HandleAt(r)>>,
                            <<"setPause", HandleAt(r)>>>>)
            /\ UNCHANGED <<sounds, mInited, nextHandle, hashOf, crashed>>

\* Player::getPause(handle)
getPause(handle) ==
    /\ ~crashed
    /\ \E r \in findByHandle(handle) :
         \/ /\ r.st = "crash"
            /\ Abort("getPause", handle)
         \/ /\ r.st = "none"
            /\ op' = Call("getPause", handle, FALSE, NoOut, <<>>)
            /\ UNCHANGED <<sounds, mInited, voices, nextHandle, hashOf,
                           crashed>>
         \/ /\ r.st = "found"
            /\ op' = Call("getPause", handle,
                          HandleAt(r) \in DOMAIN voices
                             /\ voices[HandleAt(r)].paused,
                          NoOut, <<<<"getPause", HandleAt(r)>>>>)
            /\ UNCHANGED <<sounds, mInited, voices, nextHandle, hashOf,
                           crashed>>

\* the body Player::play and Player::play3d share: look the sound up, start
\* a voice from its Wav with the engine call fn, record the handle
PlayWith(name, fn, soundHash, paused) ==
    /\ ~crashed
    /\ \E s \in FindIf(sounds, soundHash) :
         \/ /\ s = 0
            /\ Abort(name, soundHash)
         \/ /\ s = Len(sounds) + 1
            /\ op' = Call(name, soundHash, 0, NoOut, <<>>)
            /\ UNCHANGED <<sounds, mInited, voices, nextHandle, hashOf,
                           crashed>>
         \/ /\ s \in 1 .. Len(sounds)
            /\ IsNull(sounds[s])
            /\ Abort(name, soundHash)
         \/ /\ s \in 1 .. Len(sounds)
            /\ ~IsNull(sounds[s])
            /\ nextHandle <= MaxHandle
            /\ voices' = StartVoice(voices, "wav", paused)
            /\ sounds' = [sounds EXCEPT
                            ![s].handle = Append(@, nextHandle)]
            /\ nextHandle' = nextHandle + 1
            /\ op' = Call(name, soundHash, nextHandle, NoOut,
                          <<<<fn, nextHandle>>>>)
            /\ UNCHANGED <<mInited, hashOf, crashed>>

\* Player::play(soundHash, volume, pan, paused)
play(soundHash, paused) == PlayWith("play", "play", soundHash, paused)

\* Player::play3d(soundHash, position, velocity, volume, paused, bus)
play3d(soundHash, paused) == PlayWith("play3d", "play3d", soundHash, paused)

\* Player::stop(handle)
stop(handle) ==
    /\ ~crashed
    /\ \E r \in findByHandle(handle) :
         \/ /\ r.st = "crash"
            /\ Abort("stop", handle)
         \/ /\ r.st = "none"
            /\ op' = Call("stop", handle, "void", NoOut, <<>>)
            /\ UNCHANGED <<sounds, mInited, voices, nextHandle, hashOf,
                           crashed>>
         \/ /\ r.st = "found"
            /\ voices' = Without(voices, {handle})
            /\ sounds' = [sounds EXCEPT
                            ![r.i].handle = EraseHandle(@, handle)]
            /\ op' = Call("stop", handle, "void", NoOut,
                          <<<<"stop", handle>>>>)
            /\ UNCHANGED <<mInited, nextHandle, hashOf, crashed>>

\* Player::stopSound(soundHash)
stopSound(soundHash) ==
    /\ ~crashed
    /\ \E s \in FindIf(sounds, soundHash) :
         \/ /\ s = 0
            /\ Abort("stopSound", soundHash)
         \/ /\ s = Len(sounds) + 1
            /\ op' = Call("stopSound", soundHash, "void", NoOut, <<>>)
            /\ UNCHANGED <<sounds, mInited, voices, nextHandle, hashOf,
                           crashed>>
         \/ /\ s \in 1 .. Len(sounds)
            /\ IsNull(sounds[s])
            /\ Abort("stopSound", soundHash)
         \/ /\ s \in 1 .. Len(sounds)
            /\ ~IsNull(sounds[s])
            /\ \E r \in RemoveIfSounds(sounds, soundHash) :
                 LET stopped == Without(voices, WavVoices(voices, sounds[s]))
                     erased == EraseAt(r.s, r.pos)
                     \* the ActiveSounds the vector no longer owns are
                     \* destroyed, and ~Wav stops the voices of each
                     gone == ListedHandles(sounds) \ ListedHandles(erased)
                 IN  IF r.crash \/ r.pos > Len(r.s)
                     THEN Abort("stopSound", soundHash)
                     ELSE /\ sounds' = erased
                          /\ voices' =
                               Without(stopped,
                                   {h \in gone : h \in DOMAIN stopped
                                                 /\ stopped[h].src = "wav"})
                          /\ op' = Call("stopSound", soundHash, "void",
                                        NoOut, <<<<"stopAudioSource", 0>>>>)
                          /\ UNCHANGED <<mInited, nextHandle, hashOf,
                                         crashed>>

\* Player::setLooping(handle, enable)
setLooping(handle, enable) ==
    /\ ~crashed
    /\ op' = Call("setLooping", handle, "void", NoOut,
                  <<<<"setLooping", handle>>>>)
    /\ UNCHANGED <<sounds, mInited, voices, nextHandle, hashOf, crashed>>

\* textToSpeech as it would be with a lookup like the one of loadFile put
\* in front: an ActiveSound with an empty completeFileName is used again
textToSpeechReusing ==
    /\ ~crashed
    /\ mInited
    /\ nextHandle <= MaxHandle
    /\ LET old == {i \in 1 .. Len(sounds) :
                      ~IsNull(sounds[i]) /\ sounds[i].completeFileName = ""}
           pushed == Append(sounds, NewActiveSound)
       IN  IF old = {}
           THEN /\ Len(sounds) + 1 <= MaxSounds
                /\ sounds' = [pushed EXCEPT ![Len(pushed)].handle =
                                 Append(@, nextHandle)]
           ELSE \E i \in old :
                   sounds' = [sounds EXCEPT ![i].handle =
                                 Append(@, nextHandle)]
    /\ voices' = StartVoice(voices, "speech", FALSE)
    /\ nextHandle' = nextHandle + 1
    /\ op' = Call("textToSpeech", "text", "noError", nextHandle,
                  <<<<"setText", 0>>, <<"play", nextHandle>>>>)
    /\ UNCHANGED <<mInited, hashOf, crashed>>

\* Player::textToSpeech(textToSpeech, handle)
textToSpeech ==
    /\ ~crashed
    /\ IF ~mInited
       THEN /\ op' = Call("textToSpeech", "text", "backendNotInited",
                          NoOut, <<>>)
            /\ UNCHANGED <<sounds, mInited, voices, nextHandle, hashOf,
                           crashed>>
       ELSE LET pushed == Append(sounds, NewActiveSound)
            IN  \E result \in SpeechResults :
                  IF result = "noError"
                  THEN /\ Len(sounds) + 1 <= MaxSounds
                       /\ nextHandle <= MaxHandle
                       /\ voices' = StartVoice(voices, "speech", FALSE)
                       /\ sounds' = [pushed EXCEPT ![Len(pushed)].handle =
                                        Append(@, nextHandle)]
                       /\ nextHandle' = nextHandle + 1
                       /\ op' = Call("textToSpeech", "text", result,
                                     nextHandle,
                                     <<<<"setText", 0>>,
                                       <<"play", nextHandle>>>>)
                       /\ UNCHANGED <<mInited, hashOf, crashed>>
                  ELSE /\ Len(sounds) + 2 <= MaxSounds
                       /\ sounds' = Append(pushed, Null)
                       /\ op' = Call("textToSpeech", "text", result, NoOut,
                                     <<<<"setText", 0>>>>)
                       /\ UNCHANGED <<mInited, voices, nextHandle, hashOf,
                                      crashed>>

\* Player::getLength(soundHash)
getLength(soundHash) ==
    /\ ~crashed
    /\ \E s \in FindIf(sounds, soundHash) :
         \/ /\ s = 0
            /\ Abort("getLength", soundHash)
         \/ /\ s = Len(sounds) + 1
            /\ op' = Call("getLength", soundHash, 0, NoOut, <<>>)
            /\ UNCHANGED <<sounds, mInited, voices, nextHandle, hashOf,
                           crashed>>
         \/ /\ s \in 1 .. Len(sounds)
            /\ IsNull(sounds[s])
            /\ Abort("getLength", soundHash)
         \/ /\ s \in 1 .. Len(sounds)
            /\ ~IsNull(sounds[s])
            /\ op' = Call("getLength", soundHash, sounds[s].len, NoOut,
                          <<<<"getLength", 0>>>>)
            /\ UNCHANGED <<sounds, mInited, voices, nextHandle, hashOf,
                           crashed>>

\* seek as it would be if it went through findByHandle like stop
seekResolved(handle) ==
    /\ ~crashed
    /\ IF ~mInited
       THEN /\ op' = Call("seek", handle, "backendNotInited", NoOut, <<>>)
            /\ UNCHANGED <<sounds, mInited, voices, nextHandle, hashOf,
                           crashed>>
       ELSE \E r \in findByHandle(handle) :
              \/ /\ r.st = "crash"
                 /\ Abort("seek", handle)
              \/ /\ r.st = "none"
                 /\ op' = Call("seek", handle, "invalidParameter", NoOut,
                               <<>>)
                 /\ UNCHANGED <<sounds, mInited, voices, nextHandle, hashOf,
                                crashed>>
              \/ /\ r.st = "found"
                 /\ \E result \in SeekResults :
                       op' = Call("seek", handle, result, NoOut,
                                  <<<<"seek", handle>>>>)
                 /\ UNCHANGED <<sounds, mInited, voices, nextHandle, hashOf,
                                crashed>>

\* Player::seek(handle, time)
seek(handle) ==
    /\ ~crashed
    /\ IF ~mInited
       THEN op' = Call("seek", handle, "backendNotInited", NoOut, <<>>)
       ELSE \E result \in SeekResults :
              op' = Call("seek", handle, result, NoOut,
                         <<<<"seek", handle>>>>)
    /\ UNCHANGED <<sounds, mInited, voices, nextHandle, hashOf, crashed>>

\* Player::getPosition(handle)
getPosition(handle) ==
    /\ ~crashed
    /\ \E position \in (IF handle \in DOMAIN voices THEN Positions ELSE {0}) :
          op' = Call("getPosition", handle, position, NoOut,
                     <<<<"getStreamPosition", handle>>>>)
    /\ UNCHANGED <<sounds, mInited, voices, nextHandle, hashOf, crashed>>

\* Player::getIsValidVoiceHandle(handle)
getIsValidVoiceHandle(handle) ==
    /\ ~crashed
    /\ op' = Call("getIsValidVoiceHandle", handle, handle \in DOMAIN voices,
                  NoOut, <<<<"isValidVoiceHandle", handle>>>>)
    /\ UNCHANGED <<sounds, mInited, voices, nextHandle, hashOf, crashed>>

(* ------------------------------ 3D audio ------------------------------ *)

\* Player::set3dListenerParameters: position, at, up and velocity at once
set3dListenerParameters(v) ==
    /\ ~crashed
    /\ op' = Call("set3dListenerParameters", v, "void", NoOut,
                  <<<<"set3dListenerParameters", v>>>>)
    /\ UNCHANGED <<sounds, mInited, voices, nextHandle, hashOf, crashed>>

\* Player::set3dListenerPosition
set3dListenerPosition(aPos) ==
    /\ ~crashed
    /\ op' = Call("set3dListenerPosition", aPos, "void", NoOut,
                  <<<<"set3dListenerPosition", aPos>>>>)
    /\ UNCHANGED <<sounds, mInited, voices, nextHandle, hashOf, crashed>>

\* Player::set3dListenerAt
set3dListenerAt(aAt) ==
    /\ ~crashed
    /\ op' = Call("set3dListenerAt", aAt, "void", NoOut,
                  <<<<"set3dListenerAt", aAt>>>>)
    /\ UNCHANGED <<sounds, mInited, voices, nextHandle, hashOf, crashed>>

\* Player::set3dListenerUp: the engine call in its body is
\* soloud.set3dListenerAt(aUpX, aUpY, aUpZ)
set3dListenerUp(aUp) ==
    /\ ~crashed
    /\ op' = Call("set3dListenerUp", aUp, "void", NoOut,
                  <<<<"set3dListenerAt", aUp>>>>)
    /\ UNCHANGED <<sounds, mInited, voices, nextHandle, hashOf, crashed>>

\* Player::set3dListenerVelocity
set3dListenerVelocity(aVelocity) ==
    /\ ~crashed
    /\ op' = Call("set3dListenerVelocity", aVelocity, "void", NoOut,
                  <<<<"set3dListenerVelocity", aVelocity>>>>)
    /\ UNCHANGED <<sounds, mInited, voices, nextHandle, hashOf, crashed>>

(* ---------------------------- specification --------------------------- *)

\* Player::Player(): not initialised, no sounds; the hash function is fixed
\* for the run
Init ==
    /\ sounds = <<>>
    /\ mInited = FALSE
    /\ voices = EmptyVoices
    /\ nextHandle = 1
    /\ hashOf \in [Paths -> Hashes]
    /\ crashed = FALSE
    /\ op = Call("Player", 0, "void", NoOut, <<>>)

Next ==
    \/ init
    \/ dispose
    \/ \E p \in Paths : loadFile(p)
    \/ \E h \in HandleArgs : pauseSwitch(h)
    \/ \E h \in HandleArgs : getPause(h)
    \/ \E hash \in Hashes, paused \in BOOLEAN : play(hash, paused)
    \/ \E hash \in Hashes, paused \in BOOLEAN : play3d(hash, paused)
    \/ \E h \in HandleArgs : stop(h)
    \/ \E hash \in Hashes : stopSound(hash)
    \/ \E h \in HandleArgs, enable \in BOOLEAN : setLooping(h, enable)
    \/ textToSpeech
    \/ \E hash \in Hashes : getLength(hash)
    \/ \E h \in HandleArgs : seek(h)
    \/ \E h \in HandleArgs : getPosition(h)
    \/ \E h \in HandleArgs : getIsValidVoiceHandle(h)
    \/ \E v \in Vectors : set3dListenerParameters(v)
    \/ \E v \in Vectors : set3dListenerPosition(v)
    \/ \E v \in Vectors : set3dListenerAt(v)
    \/ \E v \in Vectors : set3dListenerUp(v)
    \/ \E v \in Vectors : set3dListenerVelocity(v)

Spec == Init /\ [][Next]_vars

\* The handlers that assign sounds, voices or nextHandle, with voices
\* started unpaused.  The handlers left out (pauseSwitch, getPause,
\* setLooping, getLength, seek) leave sounds and nextHandle unchanged, so
\* the same values of sounds are reached as under Next.
NextRegistry ==
    \/ init
    \/ dispose
    \/ \E p \in Paths : loadFile(p)
    \/ \E hash \in Hashes : play(hash, FALSE)
    \/ \E hash \in Hashes : play3d(hash, FALSE)
    \/ \E h \in HandleArgs : stop(h)
    \/ \E hash \in Hashes : stopSound(hash)
    \/ textToSpeech

SpecRegistry == Init /\ [][NextRegistry]_vars

\* The handlers that forward a handle to the engine without looking it up
\* (setLooping, seek, getPosition, getIsValidVoiceHandle), with the ones
\* that issue handles, unlist them and leave empty entries in sounds.
NextForward ==
    \/ init
    \/ dispose
    \/ \E p \in Paths : loadFile(p)
    \/ textToSpeech
    \/ \E h \in HandleArgs : stop(h)
    \/ \E h \in HandleArgs, enable \in BOOLEAN : setLooping(h, enable)
    \/ \E h \in HandleArgs : seek(h)
    \/ \E h \in HandleArgs : getPosition(h)
    \/ \E h \in HandleArgs : getIsValidVoiceHandle(h)

SpecForward == Init /\ [][NextForward]_vars

(* ------------------------------- claims ------------------------------- *)

\* positions of sounds that hold an ActiveSound
Assets(s) == {i \in 1 .. Len(s) : ~IsNull(s[i])}

\* some registered ActiveSound has this identity
Registered(s, hash) == \E i \in Assets(s) : s[i].soundHash = hash

\* the first ActiveSound with this identity, the one the lookups find when
\* no empty entry precedes it (0 if there is none)
FirstWith(s, hash) ==
    IF Registered(s, hash)
    THEN CHOOSE i \in Assets(s) :
            /\ s[i].soundHash = hash
            /\ \A j \in Assets(s) : s[j].soundHash = hash => i <= j
    ELSE 0

\* the handles an ActiveSound lists
HandlesOf(a) == {a.handle[k] : k \in 1 .. Len(a.handle)}

\* the calls that play a sound by identity
PlayCalls == {"play", "play3d"}

\* C1: loadFile(P) on an initialised player that already holds the
\* ActiveSound loaded from P returns fileAlreadyLoaded and leaves sounds as
\* it was: no second ActiveSound, and the existing one not mutated.
C1_SecondLoadIsAlreadyLoaded ==
    [][\A p \in Paths :
          (/\ op'.name = "loadFile"
           /\ op'.arg = p
           /\ mInited
           /\ \E i \in Assets(sounds) : sounds[i].completeFileName = p)
          => /\ ~crashed'
             /\ op'.ret = "fileAlreadyLoaded"
             /\ sounds' = sounds]_vars

\* C2: when Wav::load fails for a path whose identity is not registered,
\* loadFile returns that error and sounds is what it was before the call.
C2_FailedLoadInsertsNothing ==
    [][(/\ op'.name = "loadFile"
        /\ mInited
        /\ ~crashed'
        /\ ~Registered(sounds, hashOf[op'.arg])
        /\ op'.ret \in LoadResults \ {"noError"})
       => sounds' = sounds]_vars

\* C3: no two registered ActiveSounds have the same soundHash.
C3_IdentityUnique ==
    \A i \in Assets(sounds), j \in Assets(sounds) :
        i # j => sounds[i].soundHash # sounds[j].soundHash

\* C4: play and play3d on a registered identity start one voice, append the
\* handle the engine returned to the end of that ActiveSound's handle list
\* and return it; nothing else in sounds changes.
C4_PlayAppendsReturnedHandle ==
    [][(/\ op'.name \in PlayCalls
        /\ Registered(sounds, op'.arg))
       => /\ ~crashed'
          /\ op'.ret # 0
          /\ op'.eng = <<<<op'.name, op'.ret>>>>
          /\ op'.ret \in DOMAIN voices'
          /\ sounds' = [sounds EXCEPT
                          ![FirstWith(sounds, op'.arg)].handle =
                              Append(@, op'.ret)]]_vars

C6_StopRemovesExactlyThatHandle ==
    [][(/\ op'.name = "stop"
        /\ op'.arg \in ListedHandles(sounds))
       => /\ ~crashed'
          /\ op'.eng = <<<<"stop", op'.arg>>>>
          /\ op'.arg \notin DOMAIN voices'
          /\ \E i \in Assets(sounds) :
                /\ op'.arg \in HandlesOf(sounds[i])
                /\ sounds' = [sounds EXCEPT
                                ![i].handle =
                                    SelectSeq(@, LAMBDA h : h # op'.arg)]]_vars

\* C7: stopSound(I) on a registered identity removes exactly that one
\* ActiveSound: the vector is one shorter, the others are unchanged, and I
\* is no longer registered (so its handles resolve to nothing, getLength(I)
\* is 0.0 and play(I) is 0).
C7_StopSoundRemovesOneAsset ==
    [][(/\ op'.name = "stopSound"
        /\ Registered(sounds, op'.arg))
       => /\ ~crashed'
          /\ Len(sounds') = Len(sounds) - 1
          /\ sounds' = EraseAt(sounds, FirstWith(sounds, op'.arg))
          /\ ~Registered(sounds', op'.arg)
          /\ HandlesOf(sounds[FirstWith(sounds, op'.arg)])
                \cap ListedHandles(sounds') = {}]_vars

\* C8: when stopSound(I) on a registered identity returns, no handle the
\* ActiveSound it removed was listing is a live voice of the engine.
C8_StopSoundStopsListedVoices ==
    [][(/\ op'.name = "stopSound"
        /\ ~crashed'
        /\ Registered(sounds, op'.arg))
       => HandlesOf(sounds[FirstWith(sounds, op'.arg)])
             \cap DOMAIN voices' = {}]_vars

\* C9: a soft miss changes nothing: play and play3d on an unregistered
\* identity return 0 without an engine call, stop on a handle no ActiveSound
\* lists and stopSound on an unregistered identity do nothing, getLength on
\* an unregistered identity returns 0.0; sounds is unchanged each time.
C9_SoftMissesChangeNothing ==
    [][/\ (op'.name \in PlayCalls \cup {"getLength"}
           /\ ~Registered(sounds, op'.arg))
          => /\ ~crashed'
             /\ op'.ret = 0
             /\ op'.eng = <<>>
             /\ sounds' = sounds
             /\ voices' = voices
       /\ (op'.name = "stopSound" /\ ~Registered(sounds, op'.arg))
          => /\ ~crashed'
             /\ op'.eng = <<>>
             /\ sounds' = sounds
             /\ voices' = voices
       /\ (op'.name = "stop" /\ op'.arg \notin ListedHandles(sounds))
          => /\ ~crashed'
             /\ op'.eng = <<>>
             /\ sounds' = sounds
             /\ voices' = voices]_vars

\* the PlaybackController calls C10 names
C10Calls ==
    {"loadFile", "play", "stop", "stopSound", "pauseSwitch", "setLooping",
     "seek", "textToSpeech"}

\* C10: while the player is not initialised, none of loadFile, play, stop,
\* stopSound, pauseSwitch, setLooping, seek and textToSpeech calls the
\* engine or changes sounds, and loadFile, textToSpeech and seek return
\* backendNotInited.
C10_NothingBeforeInit ==
    [][(~mInited /\ op'.name \in C10Calls)
       => /\ ~crashed'
          /\ op'.eng = <<>>
          /\ sounds' = sounds
          /\ (op'.name \in {"loadFile", "textToSpeech", "seek"}
                => op'.ret = "backendNotInited")]_vars

\* the number of registered ActiveSounds with this identity
CountOf(s, hash) == Cardinality({i \in Assets(s) : s[i].soundHash = hash})

\* C11: an ActiveSound is never removed implicitly.  A stop that removed a
\* handle leaves every entry of sounds in place with its identity and path;
\* a play of the identity of an ActiveSound whose list that stop left empty
\* returns a handle; and the number of ActiveSounds of an identity goes
\* down only in stopSound of that identity, in dispose or in init.
C11_AssetStaysUntilUnloaded ==
    [][/\ (op'.name = "stop" /\ ~crashed' /\ op'.eng # <<>>)
          => /\ Len(sounds') = Len(sounds)
             /\ \A i \in 1 .. Len(sounds) :
                   /\ IsNull(sounds'[i]) = IsNull(sounds[i])
                   /\ ~IsNull(sounds[i])
                         => /\ sounds'[i].soundHash = sounds[i].soundHash
                            /\ sounds'[i].completeFileName =
                                  sounds[i].completeFileName
       /\ (/\ op.name = "stop"
           /\ op.eng # <<>>
           /\ op'.name \in PlayCalls
           /\ \E i \in Assets(sounds) :
                 /\ sounds[i].soundHash = op'.arg
                 /\ sounds[i].handle = <<>>)
          => /\ ~crashed'
             /\ op'.ret # 0
       /\ \A hash \in Hashes :
             (~crashed' /\ CountOf(sounds', hash) < CountOf(sounds, hash))
                => \/ op'.name \in {"dispose", "init"}
                   \/ op'.name = "stopSound" /\ op'.arg = hash]_vars

C13_FailedSpeechLeavesOneAsset ==
    [][(/\ op'.name = "textToSpeech"
        /\ mInited
        /\ op'.ret \in SpeechResults \ {"noError"})
       => /\ ~crashed'
          /\ op'.eng = <<<<"setText", 0>>>>
          /\ voices' = voices
          /\ Len(sounds') = Len(sounds) + 1
          /\ SubSeq(sounds', 1, Len(sounds)) = sounds
          /\ ~IsNull(sounds'[Len(sounds')])
          /\ sounds'[Len(sounds')].completeFileName = ""
          /\ sounds'[Len(sounds')].handle = <<>>]_vars

\* findByHandle finds none of the handles issued so far in s
NoneResolves(s) ==
    \A h \in HandleArgs :
        findByHandleFrom(s, h, 1) = {[st |-> "none", i |-> 0, handleId |-> -1]}

\* C14: dispose can be called in every state and returns; after it sounds
\* is empty, the player is not initialised, the engine has no voice and
\* findByHandle finds none of the handles issued before.  init on an
\* initialised player does the same before it starts the engine again: no
\* entry of sounds survives it, whatever soloud.init returns.
C14_DisposeClearsEverything ==
    /\ [][/\ op'.name = "dispose"
             => /\ ~crashed'
                /\ op'.eng = <<<<"deinit", 0>>>>
                /\ Len(sounds') = 0
                /\ ~mInited'
                /\ voices' = EmptyVoices
                /\ NoneResolves(sounds')
          /\ (op'.name = "init" /\ mInited)
             => /\ ~crashed'
                /\ op'.eng = <<<<"deinit", 0>>, <<"init", 0>>>>
                /\ Len(sounds') = 0
                /\ voices' = EmptyVoices
                /\ NoneResolves(sounds')
                /\ mInited' = (op'.ret = "noError")]_vars
    /\ [](~crashed => ENABLED dispose)

\* C14 witness: dispose has returned on a player that had issued handles
\* and held entries in sounds
C14_Witness ==
    /\ op.name = "dispose"
    /\ nextHandle > 1
    /\ sounds = <<>>
    /\ ~mInited

\* the pause state the engine reports for a handle (false for no voice)
Paused(v, h) == h \in DOMAIN v /\ v[h].paused

\* C15: pauseSwitch(h) on a handle some ActiveSound lists asks the engine
\* for the pause state of h and sets the opposite: the state the engine
\* reports for h is flipped (so a second pauseSwitch restores it) and every
\* other voice is as before; getPause(h) returns the state the engine
\* reports.  On a handle no ActiveSound lists pauseSwitch calls nothing and
\* getPause returns false.  sounds is unchanged each time.
C15_PauseSwitchFlipsThatVoice ==
    [][/\ (op'.name = "pauseSwitch" /\ op'.arg \in ListedHandles(sounds))
          => /\ ~crashed'
             /\ op'.eng = <<<<"getPause", op'.arg>>, <<"setPause", op'.arg>>>>
             /\ Paused(voices', op'.arg) = ~Paused(voices, op'.arg)
             /\ DOMAIN voices' = DOMAIN voices
             /\ \A g \in DOMAIN voices \ {op'.arg} : voices'[g] = voices[g]
             /\ sounds' = sounds
       /\ (op'.name = "pauseSwitch" /\ op'.arg \notin ListedHandles(sounds))
          => /\ ~crashed'
             /\ op'.eng = <<>>
             /\ voices' = voices
             /\ sounds' = sounds
       /\ (op'.name = "getPause" /\ op'.arg \in ListedHandles(sounds))
          => /\ ~crashed'
             /\ op'.ret = Paused(voices, op'.arg)
             /\ voices' = voices
             /\ sounds' = sounds
       /\ (op'.name = "getPause" /\ op'.arg \notin ListedHandles(sounds))
          => /\ ~crashed'
             /\ op'.ret = FALSE
             /\ op'.eng = <<>>
             /\ voices' = voices
             /\ sounds' = sounds]_vars

\* C16: for every handle h, findByHandle(h) has one outcome: when some
\* ActiveSound lists h, that ActiveSound and the index at which its handle
\* list holds h; when none does (h never issued, or removed by stop,
\* stopSound or dispose), the null pointer with handleId -1.
C16_FindByHandleFindsListed ==
    \A h \in HandleArgs :
        IF h \in ListedHandles(sounds)
        THEN \E i \in Assets(sounds), k \in 0 .. MaxHandle :
                /\ k < Len(sounds[i].handle)
                /\ sounds[i].handle[k + 1] = h
                /\ findByHandle(h) =
                      {[st |-> "found", i |-> i, handleId |-> k]}
        ELSE findByHandle(h) =
                {[st |-> "none", i |-> 0, handleId |-> -1]}

\* the 3D listener setters of the Player
ListenerSetters ==
    {"set3dListenerParameters", "set3dListenerPosition", "set3dListenerAt",
     "set3dListenerUp", "set3dListenerVelocity"}

\* C17: each 3D listener setter makes one engine call, the engine's setter
\* of the same name with the vector it was given, so that it sets the
\* listener parameter it is named for and no other (set3dListenerUp the up
\* vector, set3dListenerAt the at vector); sounds is unchanged.
C17_ListenerSettersForwardByName ==
    [][op'.name \in ListenerSetters
       => /\ ~crashed'
          /\ op'.eng = <<<<op'.name, op'.arg>>>>
          /\ sounds' = sounds]_vars

\* the engine call each forwarding function makes
ForwardedAs ==
    [setLooping |-> "setLooping", seek |-> "seek",
     getPosition |-> "getStreamPosition",
     getIsValidVoiceHandle |-> "isValidVoiceHandle"]

\* C18: setLooping, seek, getPosition and getIsValidVoiceHandle do not look
\* the handle up: they return in every state, also one in which sounds
\* holds an empty entry, leave sounds as it is, and on an initialised
\* player make exactly one engine call, with the handle they were given,
\* whether some ActiveSound lists it or not.
C18_ForwardingIgnoresRegistry ==
    [][op'.name \in DOMAIN ForwardedAs
       => /\ ~crashed'
          /\ sounds' = sounds
          /\ voices' = voices
          /\ mInited => op'.eng = <<<<ForwardedAs[op'.name], op'.arg>>>>]_vars

\* C18 witness: on an initialised player a forwarding call has gone to the
\* engine with a handle no ActiveSound lists, sounds holding an empty entry
C18_Witness ==
    /\ op.name \in DOMAIN ForwardedAs
    /\ ~crashed
    /\ mInited
    /\ op.arg \notin ListedHandles(sounds)
    /\ op.eng = <<<<ForwardedAs[op.name], op.arg>>>>
    /\ \E i \in 1 .. Len(sounds) : IsNull(sounds[i])

\* C19: when loadFile returns, the hash it gives back is 0 if the result is
\* fileAlreadyLoaded, and it is the soundHash of an ActiveSound registered
\* for the path exactly when the result is noError.
C19_OutputHashOnlyOnSuccess ==
    [][(op'.name = "loadFile" /\ mInited /\ ~crashed')
       => /\ op'.ret = "fileAlreadyLoaded" => op'.out = 0
          /\ (\E i \in Assets(sounds') :
                 /\ sounds'[i].completeFileName = op'.arg
                 /\ sounds'[i].soundHash = op'.out)
             <=> op'.ret = "noError"]_vars

\* C20: in every reachable state every entry of sounds holds an
\* ActiveSound, none is an empty pointer, so that getSoundsCount is the
\* number of ActiveSounds and no lookup has read through an empty entry.
C20_NoEmptyEntry ==
    /\ \A i \in 1 .. Len(sounds) : ~IsNull(sounds[i])
    /\ getSoundsCount = Cardinality(Assets(sounds))
    /\ ~crashed

\* C21: in every reachable state of a running player, if the player is not
\* initialised then sounds is empty (getSoundsCount is 0): loadFile and
\* textToSpeech insert only when mInited is set, and mInited is cleared
\* only together with sounds.
C21_UninitialisedMeansEmpty ==
    (~crashed /\ ~mInited) => getSoundsCount = 0

\* C21 witness: init on an initialised player that had issued handles has
\* torn the player down and then failed to start the engine
C21_Witness ==
    /\ op.name = "init"
    /\ ~crashed
    /\ op.ret = "backendNotInited"
    /\ op.eng = <<<<"deinit", 0>>, <<"init", 0>>>>
    /\ nextHandle > 1
    /\ ~mInited
    /\ getSoundsCount = 0

====
